---- MODULE Spec2Model ----
(***************************************************************************)
(* Day/night transition scheduler of the time-aware Pi camera              *)
(* (src/src/index.ts, types in src/unnamed/part_000).                      *)
(*                                                                         *)
(* Time is counted in clock ticks of one grace delay (1000 ms) each; a     *)
(* calendar day of the process's local time zone is Day ticks long and     *)
(* day d covers the ticks d*Day .. d*Day + Day - 1.                        *)
(***************************************************************************)
EXTENDS Integers, Sequences, FiniteSets

(* ----------------------------- bounds --------------------------------- *)

\* Ticks in one calendar day.
Day == 6
\* Last tick the wall clock reaches.
MaxTime == 13
\* Largest offset of the process's time zone west / east of UTC, in ticks.
MaxWest == 3
MaxEast == 3
\* The count of mode-change calls saturates here.
MaxCalls == 3

(* ------------------------ program constants --------------------------- *)

\* setTimeout(..., fires - now + 1000): the grace delay, one tick.
Grace == 1

\* enum CameraMode { Colour = 0, NoIR = 1 }
Colour == 0
NoIR == 1
CameraMode == {Colour, NoIR}

\* raspi-gpio levels and the I2C multiplexer's two channel selections.
LOW == 0
HIGH == 1
ChannelColour == 1
ChannelNoIR == 2

(* ------------------------------ values -------------------------------- *)

\* A Date: a valid instant, or the Invalid Date (time value NaN).
Inst(t) == [valid |-> TRUE, ms |-> t]
InvalidDate == [valid |-> FALSE, ms |-> 0]

\* Relational comparison of two Dates: with a NaN operand every comparison
\* is false.
Lt(a, b) == a.valid /\ b.valid /\ a.ms < b.ms
Gt(a, b) == a.valid /\ b.valid /\ a.ms > b.ms

\* interface Config { latitude: number; longitude: number }
\* The coordinates stand for what the oracle makes of them: longitude for
\* the time of day (UTC) of the sunrise there, latitude for the length of
\* the daylight, both in ticks.
Latitudes == 1 .. (Day - 1)
Longitudes == 0 .. (Day - 1)
Config == [latitude : Latitudes, longitude : Longitudes]

\* The default of loadConfig (lines 25-28): London, where the sun rises in
\* the second tick of the UTC day and is up for half the day.
London == [latitude |-> Day \div 2, longitude |-> 1]

\* Values JSON.parse can return that are no Config: {} and null.
EmptyObject == [f \in {} |-> 0]
JsonNull == [jsonNull |-> TRUE]
JsonValues == Config \cup {EmptyObject, JsonNull}

\* The file at CONFIG_PATH: absent, or a text that parses to a value or
\* does not parse.
NoFile == [exists |-> FALSE]
Garbage == [exists |-> TRUE, parses |-> FALSE]
TextOf(v) == [exists |-> TRUE, parses |-> TRUE, value |-> v]
Files == {NoFile, Garbage} \cup {TextOf(v) : v \in JsonValues}

\* process.argv
Argvs == { <<"node", "index.js">>,
           <<"node", "index.js", "--test", "0">>,
           <<"node", "index.js", "--test", "1">>,
           <<"node", "index.js", "--test", "2">>,
           <<"node", "index.js", "--test">> }

Zones == (0 - MaxWest) .. MaxEast

VARIABLES
    pc,         \* where the process is: "load", "setup", "args", "idle",
                \* "firing", "exited", "crashed"
    now,        \* the wall clock
    tz,         \* offset of the process's time zone from UTC (west < 0)
    file,       \* the configuration file on disk
    argv,       \* the command line
    config,     \* main's config
    nextMode,   \* the Update held by main / by the running timer callback
    plannedAt,  \* nextUpdate's `now` when nextMode was computed
    timers,     \* pending setTimeout timers, each [due, t]
    hw,         \* the hardware: I2C channel register and the GPIO pins
    calls,      \* modes of the completed update() calls, latest last
                \* (the latest MaxCalls of them)
    failed      \* a hardware access has thrown

vars == <<pc, now, tz, file, argv, config, nextMode, plannedAt, timers, hw,
          calls, failed>>

\* main's config and nextMode before they are assigned.
NoConfig == [unset |-> TRUE]
NoUpdate == [none |-> TRUE]

(* ------------------------- loadConfig (20-30) ------------------------- *)

\* fs.readFileSync throws on a missing file, JSON.parse on a text that is
\* no JSON; whatever JSON.parse returns is returned as it is.
loadConfig(f) ==
    IF ~f.exists THEN London
    ELSE IF ~f.parses THEN London
    ELSE f.value

\* A value with numeric latitude and longitude.
WellFormed(c) == c \in Config

(* ------------------- the astronomical oracle (41-48) ------------------ *)

\* Time of day, UTC, of the sunrise and the sunset at a location.
SunriseUTC(c) == c.longitude
SunsetUTC(c) == (c.longitude + c.latitude) % Day

\* Calendar day (local time) of tick n, and the first tick of the UTC day
\* of the same calendar date.
DateOf(n) == n \div Day
UTCMidnight(zone, date) == date * Day + zone

\* getSunrise / getSunset(latitude, longitude, date): the event's time of
\* day in UTC, placed on the UTC day of the calendar date; NaN coordinates
\* give the Invalid Date.
getSunrise(zone, c, date) ==
    IF "latitude" \in DOMAIN c /\ "longitude" \in DOMAIN c
    THEN Inst(UTCMidnight(zone, date) + SunriseUTC(c))
    ELSE InvalidDate
getSunset(zone, c, date) ==
    IF "latitude" \in DOMAIN c /\ "longitude" \in DOMAIN c
    THEN Inst(UTCMidnight(zone, date) + SunsetUTC(c))
    ELSE InvalidDate

(* ------------------------- nextUpdate (35-66) ------------------------- *)

\* Reading config.latitude of null throws a TypeError.
nextUpdateThrows(c) == c = JsonNull

\* Mutant of nextSunrise: the wrap onto the next day is left out.
nextSunriseToday(zone, c, n) == getSunrise(zone, c, DateOf(n))

\* Lines 41-48: today's events, each replaced by tomorrow's when it is
\* before now.
nextSunrise(zone, c, n) ==
    IF Lt(getSunrise(zone, c, DateOf(n)), Inst(n))
    THEN getSunrise(zone, c, DateOf(n) + 1)
    ELSE getSunrise(zone, c, DateOf(n))
nextSunset(zone, c, n) ==
    IF Lt(getSunset(zone, c, DateOf(n)), Inst(n))
    THEN getSunset(zone, c, DateOf(n) + 1)
    ELSE getSunset(zone, c, DateOf(n))

\* Lines 50-57: which event is next, after the correction pass.
sunriseNext(zone, c, n) ==
    LET sunriseNext0 == Lt(nextSunrise(zone, c, n), nextSunset(zone, c, n))
    IN  IF sunriseNext0 /\ Gt(Inst(n), nextSunrise(zone, c, n)) THEN FALSE
        ELSE IF ~sunriseNext0 /\ Gt(Inst(n), nextSunset(zone, c, n)) THEN TRUE
        ELSE sunriseNext0

nextUpdate(zone, c, n) ==
    IF sunriseNext(zone, c, n)
    THEN [fires |-> nextSunrise(zone, c, n), state |-> Colour]
    ELSE [fires |-> nextSunset(zone, c, n), state |-> NoIR]

(* --------------------------- update (71-83) --------------------------- *)

\* The hardware after update(mode) has run to its end.
update(h, mode) ==
    IF mode = Colour
    THEN [h EXCEPT !.i2c = ChannelColour, !.gpio4 = LOW]
    ELSE [h EXCEPT !.i2c = ChannelNoIR, !.gpio4 = HIGH]

\* The hardware when update(mode) throws: at the I2C write, or at the GPIO
\* write that follows it.
updateThrown(h, mode) ==
    { h, [h EXCEPT !.i2c = IF mode = Colour THEN ChannelColour ELSE ChannelNoIR] }

\* The log of completed calls.
Logged(cs, mode) ==
    IF Len(cs) < MaxCalls THEN Append(cs, mode) ELSE Append(Tail(cs), mode)

(* ------------------------- nextLoop (120-133) ------------------------- *)

\* Mutant of DueAt: the grace delay is left out of the delay.
DueAtNoGrace(n, fires) ==
    IF fires.valid /\ fires.ms - n > 0 THEN n + (fires.ms - n) ELSE n

\* Mutant of DueAt: a delay below zero wraps to a wait beyond the clock.
DueAtUnderflow(n, fires) ==
    IF fires.valid /\ fires.ms - n + Grace > 0
    THEN n + (fires.ms - n + Grace) ELSE MaxTime + 1

\* The tick a timer set at tick n with the given delay comes due: a delay
\* that is NaN or below 1 ms is taken as 1 ms, within the tick.
DueAt(n, fires) ==
    IF fires.valid /\ fires.ms - n + Grace > 0 THEN n + (fires.ms - n + Grace) ELSE n

\* setTimeout(callback, nextMode.fires.getTime() - now + 1000)
nextLoop(ts, t, n) == Append(ts, [due |-> DueAt(n, t.fires), t |-> t])

\* Mutant of Expire: the timer repeats (setInterval for setTimeout) and
\* stays in the list.
ExpireNever(ts, i) == ts

\* A timer that fires leaves the timer list.
Expire(ts, i) == SubSeq(ts, 1, i - 1) \o SubSeq(ts, i + 1, Len(ts))

(* --------------------------- the process ------------------------------ *)

\* The hardware as the process finds it: either camera selected.
Init ==
    /\ pc = "load"
    /\ now \in 0 .. (Day - 1)
    /\ tz \in Zones
    /\ file \in Files
    /\ argv \in Argvs
    /\ config = NoConfig
    /\ nextMode = NoUpdate
    /\ plannedAt = 0
    /\ timers = << >>
    /\ hw \in { [i2c |-> ChannelColour, gpio4 |-> LOW, gpio17 |-> HIGH],
                [i2c |-> ChannelNoIR, gpio4 |-> HIGH, gpio17 |-> HIGH] }
    /\ calls = << >>
    /\ failed = FALSE

\* Mutant of Crash: the exception is caught and logged, and the timer
\* callback carries on to its next line.
CrashCaught(h) ==
    /\ pc' = "firing"
    /\ failed' = TRUE
    /\ hw' = h
    /\ timers' = timers

\* An exception nobody catches ends the process, and its timers with it.
Crash(h) ==
    /\ pc' = "crashed"
    /\ failed' = TRUE
    /\ hw' = h
    /\ timers' = << >>

\* main, line 143: const config = loadConfig()
LoadConfig ==
    /\ pc = "load"
    /\ config' = loadConfig(file)
    /\ pc' = "setup"
    /\ UNCHANGED <<now, tz, file, argv, nextMode, plannedAt, timers, hw, calls,
                   failed>>

\* The hardware after lines 95-101 of setup.
Initialised(h) == [h EXCEPT !.i2c = ChannelColour, !.gpio17 = LOW, !.gpio4 = LOW]

\* The mode setup applies for a computed next update (lines 105-113).
StartMode(next) == IF next.state = Colour THEN NoIR ELSE Colour

\* main, line 144: the callback setup hands to init (lines 94-116).
Setup ==
    /\ pc = "setup"
    /\ \/ \* opening the I2C bus or a pin, or the first write, throws
          /\ Crash(hw)
          /\ UNCHANGED <<nextMode, plannedAt, calls>>
       \/ \* nextUpdate(config) throws
          /\ nextUpdateThrows(config)
          /\ Crash(Initialised(hw))
          /\ UNCHANGED <<nextMode, plannedAt, calls>>
       \/ \* update(...) throws
          /\ ~nextUpdateThrows(config)
          /\ \E h \in updateThrown(Initialised(hw),
                                   StartMode(nextUpdate(tz, config, now))) :
                Crash(h)
          /\ UNCHANGED <<nextMode, plannedAt, calls>>
       \/ \* resolve(next)
          /\ ~nextUpdateThrows(config)
          /\ LET next == nextUpdate(tz, config, now) IN
                /\ hw' = update(Initialised(hw), StartMode(next))
                /\ calls' = Logged(calls, StartMode(next))
                /\ nextMode' = next
                /\ plannedAt' = now
          /\ pc' = "args"
          /\ UNCHANGED <<timers, failed>>
    /\ UNCHANGED <<now, tz, file, argv, config>>

\* argv.includes('--test'), argv.indexOf('--test') (counted from 1 here)
\* and argv[index + 1], the empty sequence standing for undefined.
Includes(a, w) == \E i \in 1 .. Len(a) : a[i] = w
IndexOf(a, w) == CHOOSE i \in 1 .. Len(a) : a[i] = w /\ \A j \in 1 .. (i - 1) : a[j] # w
\* Mutant of Selector: argv[index], one place early.
SelectorOffByOne(a) == <<a[IndexOf(a, "--test")]>>

Selector(a) ==
    IF IndexOf(a, "--test") + 1 <= Len(a)
    THEN <<a[IndexOf(a, "--test") + 1]>> ELSE << >>

\* main, lines 147-155: the one-shot test mode.
MainTest ==
    /\ pc = "args"
    /\ Includes(argv, "--test")
    /\ \/ /\ Selector(argv) = <<"0">>
          /\ \/ /\ hw' = update(hw, Colour)
                /\ calls' = Logged(calls, Colour)
                /\ pc' = "exited"
                /\ UNCHANGED <<timers, failed>>
             \/ /\ \E h \in updateThrown(hw, Colour) : Crash(h)
                /\ UNCHANGED calls
       \/ /\ Selector(argv) = <<"1">>
          /\ \/ /\ hw' = update(hw, NoIR)
                /\ calls' = Logged(calls, NoIR)
                /\ pc' = "exited"
                /\ UNCHANGED <<timers, failed>>
             \/ /\ \E h \in updateThrown(hw, NoIR) : Crash(h)
                /\ UNCHANGED calls
       \/ /\ Selector(argv) \notin {<<"0">>, <<"1">>}
          /\ pc' = "exited"
          /\ UNCHANGED <<timers, failed, hw, calls>>
    /\ UNCHANGED <<now, tz, file, argv, config, nextMode, plannedAt>>

\* main, lines 156-159: nextLoop(config, nextMode), then the event loop.
MainLoop ==
    /\ pc = "args"
    /\ ~Includes(argv, "--test")
    /\ timers' = nextLoop(timers, nextMode, now)
    /\ pc' = "idle"
    /\ UNCHANGED <<now, tz, file, argv, config, nextMode, plannedAt, hw, calls,
                   failed>>

\* Mutant of TimerFire: the callback computes the next update first and
\* applies the state of that one.
TimerFireReplanFirst ==
    /\ pc = "idle"
    /\ \E i \in 1 .. Len(timers) :
          /\ timers[i].due <= now
          /\ timers' = Expire(timers, i)
          /\ nextMode' = nextUpdate(tz, config, now)
          /\ plannedAt' = now
          /\ hw' = update(hw, nextUpdate(tz, config, now).state)
          /\ calls' = Logged(calls, nextUpdate(tz, config, now).state)
          /\ pc' = "firing"
    /\ UNCHANGED <<now, tz, file, argv, config, failed>>

\* A due timer fires: its callback runs update(nextMode.state), line 127.
TimerFire ==
    /\ pc = "idle"
    /\ \E i \in 1 .. Len(timers) :
          /\ timers[i].due <= now
          /\ \/ /\ timers' = Expire(timers, i)
                /\ nextMode' = timers[i].t
                /\ hw' = update(hw, timers[i].t.state)
                /\ calls' = Logged(calls, timers[i].t.state)
                /\ pc' = "firing"
                /\ UNCHANGED failed
             \/ /\ \E h \in updateThrown(hw, timers[i].t.state) : Crash(h)
                /\ nextMode' = timers[i].t
                /\ UNCHANGED calls
    /\ UNCHANGED <<now, tz, file, argv, config, plannedAt>>

\* Mutant of Replan: the callback computes the next update and sets no
\* timer for it.
ReplanNoRearm ==
    /\ pc = "firing"
    /\ nextMode' = nextUpdate(tz, config, now)
    /\ plannedAt' = now
    /\ pc' = "idle"
    /\ UNCHANGED <<now, tz, file, argv, config, timers, hw, calls, failed>>

\* The callback goes on, lines 129-130: nextMode = nextUpdate(config) and
\* nextLoop(config, nextMode).
Replan ==
    /\ pc = "firing"
    /\ nextMode' = nextUpdate(tz, config, now)
    /\ plannedAt' = now
    /\ timers' = nextLoop(timers, nextUpdate(tz, config, now), now)
    /\ pc' = "idle"
    /\ UNCHANGED <<now, tz, file, argv, config, hw, calls, failed>>

\* The wall clock advances while the process lives.
Tick ==
    /\ pc \in {"load", "setup", "args", "idle", "firing"}
    /\ now < MaxTime
    /\ now' = now + 1
    /\ UNCHANGED <<pc, tz, file, argv, config, nextMode, plannedAt, timers, hw,
                   calls, failed>>

Next ==
    \/ LoadConfig
    \/ Setup
    \/ MainTest
    \/ MainLoop
    \/ TimerFire
    \/ Replan
    \/ Tick

Spec == Init /\ [][Next]_vars

\* The steps of the program itself: main runs on, due timers fire, and a
\* running callback runs to its end.
Step ==
    \/ LoadConfig
    \/ Setup
    \/ MainTest
    \/ MainLoop
    \/ TimerFire
    \/ Replan

\* The starts the liveness properties are checked from: the colour camera
\* selected, and the loop or the test mode with selector 0 asked for.
LiveInit ==
    /\ Init
    /\ hw.i2c = ChannelColour
    /\ argv \in { <<"node", "index.js">>, <<"node", "index.js", "--test", "0">> }

\* The program under the scheduling of the runtime: the clock goes on and
\* the event loop runs whatever is ready to run.
FairSpec == LiveInit /\ [][Next]_vars /\ WF_vars(Tick) /\ WF_vars(Step)

(* ----------------- the sun, for stating the claims -------------------- *)

\* The calendar dates whose events can matter up to MaxTime.
Dates == (0 - 2) .. ((MaxTime \div Day) + 2)

\* Every sunrise and every sunset at the configured location: the event of
\* each UTC day.
Sunrises == { UTCMidnight(tz, d) + SunriseUTC(config) : d \in Dates }
Sunsets == { UTCMidnight(tz, d) + SunsetUTC(config) : d \in Dates }

Latest(S) == CHOOSE x \in S : \A y \in S : y <= x
LastSunrise(n) == Latest({ e \in Sunrises : e < n })
LastSunset(n) == Latest({ e \in Sunsets : e < n })

\* The mode that fits tick n: Colour once the sun has risen, NoIR once it
\* has set.
Daytime(n) == LastSunrise(n) > LastSunset(n)
ModeAt(n) == IF Daytime(n) THEN Colour ELSE NoIR
Opposite(m) == IF m = Colour THEN NoIR ELSE Colour

\* Tick n is the very instant of a sunrise or a sunset.
IsEvent(n) == n \in Sunrises \cup Sunsets

\* A next update has been computed from a well-formed location.
Planned == nextMode # NoUpdate /\ WellFormed(config)

\* The oracle's answers for a calendar date lie within that date.
SameDayOracle == tz = 0

\* The command line holds the flag --test, and holds it followed by s.
TestMode == \E i \in 1 .. Len(argv) : argv[i] = "--test"
TestWith(s) ==
    \E i \in 1 .. (Len(argv) - 1) : argv[i] = "--test" /\ argv[i + 1] = s

(* ------------------------------ claims -------------------------------- *)

\* C1: the Update the planner returns has `fires` strictly after the `now`
\* it was computed at. Stated for the oracle whose answers lie on the date
\* asked for; it fails when `now` is the very instant of today's event.
C1_FiresAfterNow ==
    (Planned /\ SameDayOracle) => Gt(nextMode.fires, Inst(plannedAt))

\* C2: the state of the Update the planner returns is the opposite of the
\* event that came last before `now`: Colour after a sunset, NoIR after a
\* sunrise. Stated for the instants that are no event themselves.
C2_StateOppositeOfLastEvent ==
    (Planned /\ ~IsEvent(plannedAt)) =>
        nextMode.state = Opposite(ModeAt(plannedAt))

\* C3: at process start setup applies the mode opposite to next.state, and
\* that mode is the one that fits the event that passed last (Colour after
\* a sunrise, NoIR after a sunset).
C3_StartupModeFitsLastEvent ==
    (pc = "args" /\ WellFormed(config) /\ ~IsEvent(plannedAt)) =>
        /\ calls = <<Opposite(nextMode.state)>>
        /\ calls[1] = ModeAt(plannedAt)

\* C4: the Update computed right after a firing has `fires` strictly
\* greater than the `fires` of the Update that has just fired.
C4_DeadlinesIncrease ==
    [][(pc = "firing" /\ pc' = "idle" /\ WellFormed(config)) =>
          Gt(nextMode'.fires, nextMode.fires)]_vars

\* C5: when the planner was invoked at the very instant it returned, the
\* firing of that Update re-arms for another instant, never for the same.
C5_NoRearmForSameInstant ==
    [][(pc = "firing" /\ pc' = "idle" /\ WellFormed(config)
            /\ nextMode.fires = Inst(plannedAt)) =>
          nextMode'.fires # nextMode.fires]_vars

\* C6 as claimed: a test-mode run with selector 0 or 1 calls update exactly
\* once, with the selector's mode.
C6_TestModeOneCall ==
    /\ (pc = "exited" /\ TestWith("0")) => calls = <<Colour>>
    /\ (pc = "exited" /\ TestWith("1")) => calls = <<NoIR>>

\* C6 as amended: a test-mode run never arms a timer and never enters the
\* loop; setup applies its startup mode first, and a run with selector 0
\* or 1 that completes has called update exactly twice, the second time
\* with Colour for 0 and NoIR for 1.
C6_TestModeAfterSetup ==
    TestMode =>
        /\ timers = << >>
        /\ pc \notin {"idle", "firing"}
        /\ (pc = "exited" /\ TestWith("0")) =>
              calls = <<Opposite(nextMode.state), Colour>>
        /\ (pc = "exited" /\ TestWith("1")) =>
              calls = <<Opposite(nextMode.state), NoIR>>

C6_Witness ==
    /\ pc = "exited"
    /\ argv = <<"node", "index.js", "--test", "1">>
    /\ calls = <<Colour, NoIR>>

\* C7: at most one timer is pending in every state; exactly one while the
\* loop is suspended, and none while a timer callback runs.
C7_OneTimer ==
    /\ Len(timers) <= 1
    /\ pc = "idle" => Len(timers) = 1
    /\ pc = "firing" => Len(timers) = 0

C7_Witness ==
    /\ pc = "idle"
    /\ Len(timers) = 1
    /\ Len(calls) >= 2
    /\ timers[1].due > now

\* C9: loadConfig hands on a well-formed location, and the default one
\* whenever the file is missing, does not parse, or holds no location.
C9_DefaultOnAnyError ==
    pc # "load" =>
        /\ WellFormed(config)
        /\ file \notin { TextOf(c) : c \in Config } => config = London

\* C10: once a hardware access has thrown, no update is called, no timer
\* armed and no next update computed any more.
C10_FailureIsFatal ==
    [][failed => /\ calls' = calls
                 /\ timers' = timers
                 /\ nextMode' = nextMode
                 /\ plannedAt' = plannedAt
                 /\ hw' = hw]_vars

\* A firing has failed after the startup mode was applied.
C10_Witness ==
    /\ failed
    /\ pc = "crashed"
    /\ ~TestMode
    /\ Len(calls) >= 1

\* C12: a firing first applies the state stored in the armed timer, with
\* nothing recomputed and nothing armed by then; only the step after the
\* mode change has returned computes the next update and arms the timer
\* for it; while the loop is suspended nothing is applied or computed.
C12_ApplyReplanArm ==
    [][/\ (pc = "idle" /\ pc' = "firing") =>
             /\ calls' = Logged(calls, timers[1].t.state)
             /\ nextMode' = timers[1].t
             /\ plannedAt' = plannedAt
             /\ timers' = << >>
       /\ (pc = "firing" /\ pc' = "idle") =>
             /\ calls' = calls
             /\ plannedAt' = now
             /\ Len(timers') = 1
             /\ timers'[1].t = nextMode'
       /\ (pc = "idle" /\ pc' = "idle") =>
             /\ calls' = calls
             /\ plannedAt' = plannedAt
             /\ timers' = timers]_vars

\* The mode change of a firing has returned, the next update is not yet
\* computed.
C12_Witness ==
    /\ pc = "firing"
    /\ Len(calls) >= 2
    /\ calls[Len(calls)] = nextMode.state
    /\ plannedAt < now
    /\ timers = << >>

\* C13: a timer callback never runs before the clock has reached the
\* fires of its Update plus the grace delay.
C13_NotBeforeGrace ==
    [][(pc = "idle" /\ pc' # "idle" /\ timers[1].t.fires.valid) =>
          now >= timers[1].t.fires.ms + Grace]_vars

\* A firing at the very tick the grace delay ends.
C13_Witness ==
    /\ pc = "firing"
    /\ nextMode.fires.valid
    /\ now = nextMode.fires.ms + Grace
    /\ plannedAt < nextMode.fires.ms

\* Today's and tomorrow's answers of the oracle at the tick nextMode was
\* computed.
TodaySunrise == getSunrise(tz, config, DateOf(plannedAt))
TodaySunset == getSunset(tz, config, DateOf(plannedAt))
TomorrowSunrise == getSunrise(tz, config, DateOf(plannedAt) + 1)
TomorrowSunset == getSunset(tz, config, DateOf(plannedAt) + 1)

\* C14: each of today's sunrise and sunset that lies at or before now, the
\* very instant now included, is replaced by tomorrow's; one that lies
\* after now is kept.
C14_RollForwardAtOrBefore ==
    Planned =>
        /\ nextSunrise(tz, config, plannedAt) =
              IF TodaySunrise.ms <= plannedAt THEN TomorrowSunrise ELSE TodaySunrise
        /\ nextSunset(tz, config, plannedAt) =
              IF TodaySunset.ms <= plannedAt THEN TomorrowSunset ELSE TodaySunset

\* C15: the Update the planner returns is never an event that is already
\* in the past.
C15_NeverAPastEvent ==
    Planned => ~Lt(nextMode.fires, Inst(plannedAt))

\* The oracle's answers are in the order todaySunrise < todaySunset <
\* tomorrowSunrise < tomorrowSunset.
OrdinaryDay ==
    /\ Lt(TodaySunrise, TodaySunset)
    /\ Lt(TodaySunset, TomorrowSunrise)
    /\ Lt(TomorrowSunrise, TomorrowSunset)

\* C16 as claimed: on an ordinary day the planner returns today's sunrise
\* before it, today's sunset between the two, and tomorrow's sunrise at
\* any now after today's sunset. The last case is stated for the instants
\* before tomorrow's sunset that are no event themselves.
C16_OrdinaryDayAsClaimed ==
    (Planned /\ OrdinaryDay) =>
        /\ plannedAt < TodaySunrise.ms =>
              nextMode = [fires |-> TodaySunrise, state |-> Colour]
        /\ (TodaySunrise.ms < plannedAt /\ plannedAt < TodaySunset.ms) =>
              nextMode = [fires |-> TodaySunset, state |-> NoIR]
        /\ (TodaySunset.ms < plannedAt /\ plannedAt < TomorrowSunset.ms
                /\ ~IsEvent(plannedAt)) =>
              nextMode = [fires |-> TomorrowSunrise, state |-> Colour]

\* C16 as amended: tomorrow's sunrise is returned when now is after
\* today's sunset and before tomorrow's sunrise.
C16_OrdinaryDay ==
    (Planned /\ OrdinaryDay) =>
        /\ plannedAt < TodaySunrise.ms =>
              nextMode = [fires |-> TodaySunrise, state |-> Colour]
        /\ (TodaySunrise.ms < plannedAt /\ plannedAt < TodaySunset.ms) =>
              nextMode = [fires |-> TodaySunset, state |-> NoIR]
        /\ (TodaySunset.ms < plannedAt /\ plannedAt < TomorrowSunrise.ms) =>
              nextMode = [fires |-> TomorrowSunrise, state |-> Colour]

\* Planned after today's sunset: tomorrow's sunrise is next.
C16_Witness ==
    /\ Planned
    /\ OrdinaryDay
    /\ TodaySunset.ms < plannedAt
    /\ plannedAt < TomorrowSunrise.ms
    /\ nextMode = [fires |-> TomorrowSunrise, state |-> Colour]

\* C18: whenever a timer is armed, the mode applied last is the opposite
\* of the state the timer will apply.
C18_FiringsAlternate ==
    (pc = "idle" /\ WellFormed(config)) =>
        calls[Len(calls)] = Opposite(timers[1].t.state)

\* C11: a pending timer whose fires plus grace has passed, or whose fires
\* is no valid instant, is due at once; and every timer whose fires plus
\* grace lies within the clock's range does fire.
C11_ArmedTimerFires ==
    /\ [](pc = "idle" /\ Len(timers) = 1
            /\ (~timers[1].t.fires.valid \/ timers[1].t.fires.ms + Grace <= now)
          => timers[1].due <= now)
    /\ (pc = "idle" /\ Len(timers) = 1
            /\ (~timers[1].t.fires.valid
                  \/ timers[1].t.fires.ms + Grace <= MaxTime))
          ~> (pc \in {"firing", "crashed"})

\* A timer armed for a fires already in the past has fired within the
\* tick it was armed in.
C11_Witness ==
    /\ pc = "firing"
    /\ nextMode.fires.valid
    /\ nextMode.fires.ms + Grace <= plannedAt
    /\ now = plannedAt

\* C17: outside test mode and unless a hardware access throws, the loop
\* has a timer armed again and again, for ever.
C17_LoopNeverEnds ==
    []<>(TestMode \/ failed \/ (pc = "idle" /\ Len(timers) = 1))

\* The loop has re-armed after its second firing.
C17_Witness ==
    /\ ~TestMode
    /\ ~failed
    /\ pc = "idle"
    /\ Len(timers) = 1
    /\ Len(calls) >= 3

====
